---- MODULE Spec2Model ----
(***************************************************************************)
(* A model of genosv/visualize/dotplots.py: the simple-repeat detector,    *)
(* the boundary computation, the yass adapter and the batch driver that    *)
(* writes one page per pair of chromosome parts into one pdf.              *)
(*                                                                         *)
(* Text is modelled at the level of characters: a string is a sequence of  *)
(* one-character strings, so that startswith, "in", split and int are      *)
(* computed and not assumed.  Python positions are 0-based and half-open;  *)
(* TLA+ sequences are 1-based, and every span below is given as Python     *)
(* gives it.                                                               *)
(***************************************************************************)
EXTENDS Integers, Sequences, FiniteSets, TLC

VARIABLES
    gate,        \* _CAN_GENERATE_DOTPLOTS, fixed at import time
    alt, ref,    \* datahub.variant.chrom_parts("alt"), chrom_parts("ref")
    pc,          \* position of generate_dotplots
    parts,       \* the OrderedDict parts, as the sequence of its values in key order
    i, j,        \* the loop positions of lines 83 and 84 (1-based)
    pdf,         \* the R graphics device: "none", "open", "closed"
    reads,       \* number of chrom_parts() calls made on the data model
    calls,       \* the draw_dotplot calls made so far, <<part1, part2>> each
    pageCount,   \* pages started in the pdf (ro.r.plot calls)
    yassCalls,   \* number of yass subprocesses started
    tempDirs,    \* number of temporary directories on disk
    breakpoints, \* <<breakpoints1, breakpoints2>> of the current draw_dotplot
    resultCode,  \* proc.wait() of the current yass run
    stderrLines, \* proc.stderr.readlines() of the current yass run
    resultFile,  \* the lines of the current result.txt
    lineNo,      \* next line of resultFile the loop of line 155 reads
    ops,         \* what the current draw_dotplot call has done to yass and the canvas
    exc,         \* the exception that ended generate_dotplots, if any
    segsIn, bpOut, bpPc,     \* the boundary computation taken alone
    seqIn, repeatsOut, rpPc  \* detect_simple_repeats taken alone

vars == <<gate, alt, ref, pc, parts, i, j, pdf, reads, calls, pageCount,
          yassCalls, tempDirs, breakpoints, resultCode, stderrLines,
          resultFile, lineNo, ops, exc, segsIn, bpOut, bpPc,
          seqIn, repeatsOut, rpPc>>

driverVars == <<gate, alt, ref, pc, parts, i, j, pdf, reads, calls, pageCount,
                yassCalls, tempDirs, breakpoints, resultCode, stderrLines,
                resultFile, lineNo, ops, exc>>

bpVars == <<segsIn, bpOut, bpPc>>

rpVars == <<seqIn, repeatsOut, rpPc>>

(***************************************************************************)
(* Bounds of the model.                                                    *)
(***************************************************************************)
MaxParts == 3      \* chromosome parts of the two alleles together
MaxLines == 2      \* lines of a yass result file
MaxSegs == 3       \* segments of a part, in the boundary computation
MaxSegLen == 5     \* length of a segment, in the boundary computation
MaxChunks == 2     \* runs a sequence is built from, in the repeat detector

(***************************************************************************)
(* Helpers on sequences.                                                   *)
(***************************************************************************)
Max(a, b) == IF a >= b THEN a ELSE b

RECURSIVE Rep(_, _)
Rep(u, k) == IF k <= 0 THEN <<>> ELSE u \o Rep(u, k - 1)

RECURSIVE Concat(_)
Concat(ss) == IF ss = <<>> THEN <<>> ELSE Head(ss) \o Concat(Tail(ss))

SeqsUpTo(S, n) == UNION {[1..k -> S] : k \in 0..n}

(***************************************************************************)
(* Lines 37-39: the repeat units.  itertools.product enumerates in the     *)
(* order of nucs, last position fastest; units of one symbol are dropped.  *)
(***************************************************************************)
nucs == <<"A", "C", "G", "T">>

mononucs == [k \in 1..4 |-> <<nucs[k]>>]

dinucs ==
    SelectSeq([k \in 1..16 |-> <<nucs[((k - 1) \div 4) + 1], nucs[((k - 1) % 4) + 1]>>],
              LAMBDA x : Cardinality({x[1], x[2]}) # 1)

trinucs ==
    SelectSeq([k \in 1..64 |-> <<nucs[((k - 1) \div 16) + 1],
                                 nucs[(((k - 1) \div 4) % 4) + 1],
                                 nucs[((k - 1) % 4) + 1]>>],
              LAMBDA x : Cardinality({x[1], x[2], x[3]}) # 1)

\* The least repeat counts of the three patterns of lines 42-44.
MonoMin == 10
DiMin == 5
TriMin == 3

(***************************************************************************)
(* Lines 48-51: re.finditer over "(u1){m,}|(u2){m,}|...".  At a position   *)
(* the alternatives are tried in order, each one greedy; the first that    *)
(* matches gives the match, and the scan goes on from the match's end.     *)
(***************************************************************************)
\* Number of consecutive copies of unit in seq from (1-based) position p.
RECURSIVE RunLen(_, _, _)
RunLen(seq, p, unit) ==
    IF p + Len(unit) - 1 <= Len(seq) /\ SubSeq(seq, p, p + Len(unit) - 1) = unit
    THEN 1 + RunLen(seq, p + Len(unit), unit)
    ELSE 0

\* Length of the match of the alternation at position p, 0 when none matches.
\* The units of one pattern have the same length and differ pairwise, so the only
\* alternative that can match at p is the one equal to the next characters of seq:
\* trying the alternatives in order comes to looking that one up.
MatchAt(seq, p, units, least) ==
    LET w == Len(units[1])
        u == SubSeq(seq, p, p + w - 1)
    IN IF p + w - 1 <= Len(seq)
          /\ RunLen(seq, p, u) >= least
          /\ (\E k \in 1..Len(units) : units[k] = u)
       THEN RunLen(seq, p, u) * w
       ELSE 0

\* The spans (start, end) of the matches found from position p on.
RECURSIVE FindIter(_, _, _, _)
FindIter(seq, p, units, least) ==
    IF p > Len(seq) THEN <<>>
    ELSE LET m == MatchAt(seq, p, units, least)
         IN IF m > 0
            THEN <<<<p - 1, p - 1 + m>>>> \o FindIter(seq, p + m, units, least)
            ELSE FindIter(seq, p + 1, units, least)

\* A scan that restarts one position after a match's start: overlapping matches.
RECURSIVE FindIterOverlapping(_, _, _, _)
FindIterOverlapping(seq, p, units, least) ==
    IF p > Len(seq) THEN <<>>
    ELSE LET m == MatchAt(seq, p, units, least)
         IN IF m > 0
            THEN <<<<p - 1, p - 1 + m>>>> \o FindIterOverlapping(seq, p + 1, units, least)
            ELSE FindIterOverlapping(seq, p + 1, units, least)

\* detect_simple_repeats with the overlapping scan.
DetectSimpleRepeatsOverlapping(seq) ==
    FindIterOverlapping(seq, 1, mononucs, MonoMin)
        \o FindIterOverlapping(seq, 1, dinucs, DiMin)
        \o FindIterOverlapping(seq, 1, trinucs, TriMin)

\* Lines 41-53.
DetectSimpleRepeats(seq) ==
    FindIter(seq, 1, mononucs, MonoMin)
        \o FindIter(seq, 1, dinucs, DiMin)
        \o FindIter(seq, 1, trinucs, TriMin)

(***************************************************************************)
(* Lines 92-93: numpy.cumsum(lengths)[:-1].                                *)
(***************************************************************************)
RECURSIVE CumsumFrom(_, _, _)
CumsumFrom(lens, k, acc) ==
    IF k > Len(lens) THEN <<>>
    ELSE <<acc + lens[k]>> \o CumsumFrom(lens, k + 1, acc + lens[k])

Cumsum(lens) == CumsumFrom(lens, 1, 0)

\* The cumulative sums with the final total kept.
BreakpointsKeepTotal(segments) ==
    Cumsum([k \in 1..Len(segments) |-> Len(segments[k])])

\* breakpoints of a part's segments; len(segment) is the segment's length.
Breakpoints(segments) ==
    LET c == Cumsum([k \in 1..Len(segments) |-> Len(segments[k])])
    IN SubSeq(c, 1, Len(c) - 1)

(***************************************************************************)
(* The upstream data model, read only: a part has an id and segments; a    *)
(* segment is a stretch of nucleotides and its len() is the number of      *)
(* them; get_seq() is the segments' nucleotides in order.                  *)
(***************************************************************************)
GetSeq(part) == Concat(part.segments)

PartA1 == [id |-> "a", segments |-> <<<<"A", "C", "G">>, Rep(<<"A">>, 10)>>]
PartA2 == [id |-> "a", segments |-> <<<<"A", "C", "G", "T">>>>]
PartB == [id |-> "b", segments |-> <<Rep(<<"A", "C">>, 5), <<"G">>, <<"T", "T", "G">>>>]
PartC == [id |-> "c", segments |-> <<Rep(<<"A", "C", "G">>, 3)>>]

AltPool == {PartA1, PartB}
RefPool == {PartA2, PartC}

(***************************************************************************)
(* Text, as sequences of characters.                                       *)
(***************************************************************************)
Whitespace == {" ", "\t", "\n"}

Digits == <<"0", "1", "2", "3", "4", "5", "6", "7", "8", "9">>

\* str.startswith(prefix)
StartsWith(line, prefix) ==
    Len(line) >= Len(prefix) /\ SubSeq(line, 1, Len(prefix)) = prefix

\* pattern in line
Contains(line, pattern) ==
    \E k \in 1..(Len(line) - Len(pattern) + 1) :
        SubSeq(line, k, k + Len(pattern) - 1) = pattern

\* line.strip().split(): the maximal runs of non-whitespace characters.
RECURSIVE SplitFrom(_, _, _)
SplitFrom(line, k, word) ==
    IF k > Len(line) THEN (IF word = <<>> THEN <<>> ELSE <<word>>)
    ELSE IF line[k] \in Whitespace
         THEN (IF word = <<>> THEN <<>> ELSE <<word>>) \o SplitFrom(line, k + 1, <<>>)
         ELSE SplitFrom(line, k + 1, Append(word, line[k]))

Split(line) == SplitFrom(line, 1, <<>>)

DigitValue(c) == (CHOOSE d \in 1..10 : Digits[d] = c) - 1

IsDigit(c) == \E d \in 1..10 : Digits[d] = c

RECURSIVE DigitsValue(_, _, _)
DigitsValue(word, k, acc) ==
    IF k > Len(word) THEN acc
    ELSE DigitsValue(word, k + 1, 10 * acc + DigitValue(word[k]))

\* int(word): ok is FALSE where Python raises ValueError.
ParseInt(word) ==
    LET neg == Len(word) > 0 /\ word[1] = "-"
        body == IF Len(word) > 0 /\ word[1] \in {"-", "+"} THEN Tail(word) ELSE word
    IN IF body # <<>> /\ \A k \in 1..Len(body) : IsDigit(body[k])
       THEN [ok |-> TRUE,
             val |-> IF neg THEN 0 - DigitsValue(body, 1, 0) ELSE DigitsValue(body, 1, 0)]
       ELSE [ok |-> FALSE, val |-> 0]

CommentLine == <<"#", " ", "q">>
ForwardLine == <<"1", "0", " ", "2", "0", " ", "5", " ", "1", "5", " ", "0", " ", "0", " ", "f">>
ReverseLine == <<"1", "0", " ", "2", "0", " ", "5", " ", "1", "5", " ", "0", " ", "0", " ", "r">>
ShortLine == <<"1", " ", "2", " ", "3">>
NonIntegerLine == <<"x", " ", "2", "0", " ", "5", " ", "1", "5", " ", "0", " ", "0", " ", "f">>

WellFormedLines == {CommentLine, ForwardLine, ReverseLine}

LinePool == WellFormedLines \cup {ShortLine, NonIntegerLine}

\* The result files: up to MaxLines lines.  Reading stops at the first line that is
\* not well formed, so such a line is given only as a file's last line.
ResultFiles ==
    {f \in SeqsUpTo(LinePool, MaxLines) :
        \A k \in 1..(Len(f) - 1) : f[k] \in WellFormedLines}

OkDiag == <<"o", "k">>
ErrorDiag == <<"*", " ", "E", "r", "r", "o", "r", ":", " ", "x">>
ErrorWord == <<"E", "r", "r", "o", "r">>

\* What yass may have written to stderr: nothing, an error on the first line, or an
\* error on a later line only.
StderrPool == {<<>>, <<ErrorDiag>>, <<OkDiag, ErrorDiag>>}

\* What a yass run can leave behind: an exit code, its stderr, its result file.
\* A run that is rejected by the checks of lines 134-139 has its result unread.
YassOutcomes ==
    {o \in [rc : {0, 1}, stderr : StderrPool, result : ResultFiles] :
        (o.rc # 0 \/ o.stderr = <<>> \/ Contains(o.stderr[1], ErrorWord))
            => o.result = <<>>}

(***************************************************************************)
(* Canvas coordinates are kept in hundredths of a sequence position, so    *)
(* that from_axis = max(len) * 0.01 of line 59 is a whole number.          *)
(***************************************************************************)
H(x) == 100 * x

FromAxis(s1, s2) == Max(Len(s1), Len(s2))

\* Lines 120-123: -int(max(len) / 2 / 10 * 5).
GapExtend(s1, s2) == 0 - ((Max(Len(s1), Len(s2)) * 5) \div 20)

NoExc == [type |-> "none", line |-> 0]

(***************************************************************************)
(* Lines 23-35: the availability gate.                                     *)
(***************************************************************************)
CanGenerateDotplots(roImported, yassVersionRuns) ==
    IF ~roImported THEN FALSE
    ELSE IF ~yassVersionRuns THEN FALSE
    ELSE TRUE

(***************************************************************************)
(* Lines 71-75: parts[part.id] = part on an OrderedDict.  The dict is the  *)
(* sequence of its values in key order; a value's key is its id.           *)
(***************************************************************************)
\* An assignment that moves an existing key to the end.
DictSetMoveToEnd(d, part) ==
    Append(SelectSeq(d, LAMBDA p : p.id # part.id), part)

DictSet(d, part) ==
    IF \E k \in 1..Len(d) : d[k].id = part.id
    THEN [k \in 1..Len(d) |-> IF d[k].id = part.id THEN part ELSE d[k]]
    ELSE Append(d, part)

RECURSIVE Collect(_, _, _)
Collect(d, list, k) ==
    IF k > Len(list) THEN d ELSE Collect(DictSet(d, list[k]), list, k + 1)

(***************************************************************************)
(* Lines 83-84: the pairs, as positions in list(parts.keys()).             *)
(***************************************************************************)
\* The inner loop without the self-pair: keys[i+1:].
InnerFirstSkipSelf(k) == k + 1

\* First position of list(parts.keys())[i:], for the i-th key (1-based).
InnerFirst(k) == k

\* The first pair at or after outer position k; <<n + 1, n + 1>> when none is left.
RECURSIVE Enter(_, _)
Enter(n, k) ==
    IF k > n THEN <<n + 1, n + 1>>
    ELSE IF InnerFirst(k) <= n THEN <<k, InnerFirst(k)>>
    ELSE Enter(n, k + 1)

\* The pair after <<a, b>>.
After(n, a, b) == IF b < n THEN <<a, b + 1>> ELSE Enter(n, a + 1)

(***************************************************************************)
(* Initial states.  Each of the three specifications below starts its own  *)
(* part of the state and leaves the rest idle.                             *)
(***************************************************************************)
DriverIdle ==
    /\ gate = FALSE /\ alt = <<>> /\ ref = <<>> /\ pc = "idle"
    /\ parts = <<>> /\ i = 1 /\ j = 1 /\ pdf = "none" /\ reads = 0
    /\ calls = <<>> /\ pageCount = 0 /\ yassCalls = 0 /\ tempDirs = 0
    /\ breakpoints = <<<<>>, <<>>>> /\ resultCode = 0 /\ stderrLines = <<>>
    /\ resultFile = <<>> /\ lineNo = 1 /\ ops = <<>> /\ exc = NoExc

BreakpointsIdle == segsIn = <<>> /\ bpOut = <<>> /\ bpPc = "idle"

RepeatsIdle == seqIn = <<>> /\ repeatsOut = <<>> /\ rpPc = "idle"

\* The state after the module is imported and before generate_dotplots is called.
Init ==
    /\ gate \in {CanGenerateDotplots(r, y) : r \in BOOLEAN, y \in BOOLEAN}
    /\ alt \in SeqsUpTo(AltPool, MaxParts)
    /\ ref \in SeqsUpTo(RefPool, MaxParts - Len(alt))
    /\ pc = "start"
    /\ parts = <<>> /\ i = 1 /\ j = 1 /\ pdf = "none" /\ reads = 0
    /\ calls = <<>> /\ pageCount = 0 /\ yassCalls = 0 /\ tempDirs = 0
    /\ breakpoints = <<<<>>, <<>>>> /\ resultCode = 0 /\ stderrLines = <<>>
    /\ resultFile = <<>> /\ lineNo = 1 /\ ops = <<>> /\ exc = NoExc
    /\ BreakpointsIdle
    /\ RepeatsIdle

(***************************************************************************)
(* generate_dotplots, lines 67-87.                                         *)
(***************************************************************************)
\* Lines 71-80 entered whatever the gate says.
GenerateCollectUngated ==
    /\ pc = "start"
    /\ parts' = Collect(Collect(<<>>, alt, 1), ref, 1)
    /\ reads' = reads + 2
    /\ pdf' = "open"
    /\ i' = Enter(Len(parts'), 1)[1]
    /\ j' = Enter(Len(parts'), 1)[2]
    /\ pc' = "loop"
    /\ UNCHANGED <<gate, alt, ref, calls, pageCount, yassCalls, tempDirs, breakpoints,
                   resultCode, stderrLines, resultFile, lineNo, ops, exc>>
    /\ UNCHANGED <<bpVars, rpVars>>

\* Lines 68-69: the gate is closed and the call returns.
GenerateReturn ==
    /\ pc = "start"
    /\ ~gate
    /\ pc' = "done"
    /\ UNCHANGED <<gate, alt, ref, parts, i, j, pdf, reads, calls, pageCount, yassCalls,
                   tempDirs, breakpoints, resultCode, stderrLines, resultFile, lineNo,
                   ops, exc>>
    /\ UNCHANGED <<bpVars, rpVars>>

\* Lines 71-80: the parts of "alt" then "ref" are collected and the pdf is opened.
GenerateCollect ==
    /\ pc = "start"
    /\ gate
    /\ parts' = Collect(Collect(<<>>, alt, 1), ref, 1)
    /\ reads' = reads + 2
    /\ pdf' = "open"
    /\ i' = Enter(Len(parts'), 1)[1]
    /\ j' = Enter(Len(parts'), 1)[2]
    /\ pc' = "loop"
    /\ UNCHANGED <<gate, alt, ref, calls, pageCount, yassCalls, tempDirs, breakpoints,
                   resultCode, stderrLines, resultFile, lineNo, ops, exc>>
    /\ UNCHANGED <<bpVars, rpVars>>

\* Lines 85, 91-99 and 106-132: draw_dotplot is called on the next pair, computes the
\* breakpoints and enters yass_dotplot, which makes its temporary directory, writes
\* the two sequences and waits for yass.
DrawDotplot ==
    /\ pc = "loop"
    /\ i <= Len(parts)
    /\ LET part1 == parts[i]
           part2 == parts[j]
       IN /\ calls' = Append(calls, <<part1, part2>>)
          /\ breakpoints' = <<Breakpoints(part1.segments), Breakpoints(part2.segments)>>
          /\ ops' = <<[op |-> "yass",
                       gapExtend |-> GapExtend(GetSeq(part1), GetSeq(part2))]>>
    /\ tempDirs' = tempDirs + 1
    /\ yassCalls' = yassCalls + 1
    /\ \E o \in YassOutcomes :
          /\ resultCode' = o.rc
          /\ stderrLines' = o.stderr
          /\ resultFile' = o.result
    /\ lineNo' = 1
    /\ pc' = "waited"
    /\ UNCHANGED <<gate, alt, ref, parts, i, j, pdf, reads, pageCount, exc>>
    /\ UNCHANGED <<bpVars, rpVars>>

\* Lines 134-139: the exit code, then the first line of stderr.
YassCheck ==
    /\ pc = "waited"
    /\ IF resultCode # 0
       THEN exc' = [type |-> "YassException", line |-> 135] /\ pc' = "raised"
       ELSE IF stderrLines = <<>>
       THEN exc' = [type |-> "IndexError", line |-> 136] /\ pc' = "raised"
       ELSE IF Contains(stderrLines[1], ErrorWord)
       THEN exc' = [type |-> "YassException", line |-> 139] /\ pc' = "raised"
       ELSE exc' = exc /\ pc' = "plot"
    /\ UNCHANGED <<gate, alt, ref, parts, i, j, pdf, reads, calls, pageCount, yassCalls,
                   tempDirs, breakpoints, resultCode, stderrLines, resultFile, lineNo, ops>>
    /\ UNCHANGED <<bpVars, rpVars>>

\* Lines 141-153: the page is started and the gridlines drawn.
PlotPage ==
    /\ pc = "plot"
    /\ LET part1 == calls[Len(calls)][1]
           part2 == calls[Len(calls)][2]
       IN ops' = ops \o
            <<[op |-> "plot", main |-> <<part1.id, ":", part2.id>>,
               xlab |-> part1.id, ylab |-> part2.id,
               xlim |-> <<H(0), H(Len(GetSeq(part1)))>>,
               ylim |-> <<H(0), H(Len(GetSeq(part2)))>>],
              [op |-> "abline", v |-> [k \in 1..Len(breakpoints[1]) |-> H(breakpoints[1][k])]],
              [op |-> "abline", h |-> [k \in 1..Len(breakpoints[2]) |-> H(breakpoints[2][k])]]>>
    /\ pageCount' = pageCount + 1
    /\ pc' = "lines"
    /\ UNCHANGED <<gate, alt, ref, parts, i, j, pdf, reads, calls, yassCalls, tempDirs,
                   breakpoints, resultCode, stderrLines, resultFile, lineNo, exc>>
    /\ UNCHANGED <<bpVars, rpVars>>

\* Lines 159-162 with the strands exchanged.
SegmentOfSwapped(res) ==
    LET a == ParseInt(res[1]).val
        b == ParseInt(res[2]).val
        c == ParseInt(res[3]).val
        d == ParseInt(res[4]).val
    IN IF res[7] = <<"f">>
       THEN [op |-> "segments", x0 |-> H(b), y0 |-> H(c), x1 |-> H(a), y1 |-> H(d),
             col |-> "red", lwd |-> 1]
       ELSE [op |-> "segments", x0 |-> H(a), y0 |-> H(c), x1 |-> H(b), y1 |-> H(d),
             col |-> "blue", lwd |-> 1]

\* Lines 159-162: the segment of a line whose fields res parse.
SegmentOf(res) ==
    LET a == ParseInt(res[1]).val
        b == ParseInt(res[2]).val
        c == ParseInt(res[3]).val
        d == ParseInt(res[4]).val
    IN IF res[7] = <<"f">>
       THEN [op |-> "segments", x0 |-> H(a), y0 |-> H(c), x1 |-> H(b), y1 |-> H(d),
             col |-> "blue", lwd |-> 1]
       ELSE [op |-> "segments", x0 |-> H(b), y0 |-> H(c), x1 |-> H(a), y1 |-> H(d),
             col |-> "red", lwd |-> 1]

\* Lines 155-162: one turn of the loop over the result file, or its end, where
\* yass_dotplot returns to draw_dotplot.
ReadLine ==
    /\ pc = "lines"
    /\ IF lineNo > Len(resultFile)
       THEN /\ pc' = "repeats"
            /\ UNCHANGED <<lineNo, ops, exc>>
       ELSE LET line == resultFile[lineNo]
                res == Split(line)
            IN IF StartsWith(line, <<"#">>)
               THEN /\ lineNo' = lineNo + 1
                    /\ UNCHANGED <<pc, ops, exc>>
               ELSE IF Len(res) < 7
               THEN /\ exc' = [type |-> "IndexError", line |-> 159]
                    /\ pc' = "raised"
                    /\ UNCHANGED <<lineNo, ops>>
               ELSE IF \E k \in 1..4 : ~ParseInt(res[k]).ok
               THEN /\ exc' = [type |-> "ValueError",
                               line |-> IF res[7] = <<"f">> THEN 160 ELSE 162]
                    /\ pc' = "raised"
                    /\ UNCHANGED <<lineNo, ops>>
               ELSE /\ ops' = Append(ops, SegmentOf(res))
                    /\ lineNo' = lineNo + 1
                    /\ UNCHANGED <<pc, exc>>
    /\ UNCHANGED <<gate, alt, ref, parts, i, j, pdf, reads, calls, pageCount, yassCalls,
                   tempDirs, breakpoints, resultCode, stderrLines, resultFile>>
    /\ UNCHANGED <<bpVars, rpVars>>

\* The markers of the repeats of s2 drawn before those of s1.
RepeatMarkersSecondFirst(s1, s2) ==
    LET repeats1 == DetectSimpleRepeats(s1)
        repeats2 == DetectSimpleRepeats(s2)
        fromAxis == FromAxis(s1, s2)
    IN [k \in 1..Len(repeats2) |->
            [op |-> "segments", x0 |-> fromAxis, y0 |-> H(repeats2[k][1]),
             x1 |-> fromAxis, y1 |-> H(repeats2[k][2]), col |-> "red", lwd |-> 5]]
       \o
       [k \in 1..Len(repeats1) |->
            [op |-> "segments", x0 |-> H(repeats1[k][1]), y0 |-> fromAxis,
             x1 |-> H(repeats1[k][2]), y1 |-> fromAxis, col |-> "red", lwd |-> 5]]

\* Lines 55-64: the markers of the repeats of s1, then of s2.
RepeatMarkers(s1, s2) ==
    LET repeats1 == DetectSimpleRepeats(s1)
        repeats2 == DetectSimpleRepeats(s2)
        fromAxis == FromAxis(s1, s2)
    IN [k \in 1..Len(repeats1) |->
            [op |-> "segments", x0 |-> H(repeats1[k][1]), y0 |-> fromAxis,
             x1 |-> H(repeats1[k][2]), y1 |-> fromAxis, col |-> "red", lwd |-> 5]]
       \o
       [k \in 1..Len(repeats2) |->
            [op |-> "segments", x0 |-> fromAxis, y0 |-> H(repeats2[k][1]),
             x1 |-> fromAxis, y1 |-> H(repeats2[k][2]), col |-> "red", lwd |-> 5]]

\* Line 101: plot_simple_repeats on the two sequences.
PlotSimpleRepeats ==
    /\ pc = "repeats"
    /\ LET part1 == calls[Len(calls)][1]
           part2 == calls[Len(calls)][2]
       IN ops' = ops \o RepeatMarkers(GetSeq(part1), GetSeq(part2))
    /\ pc' = "drawn"
    /\ UNCHANGED <<gate, alt, ref, parts, i, j, pdf, reads, calls, pageCount, yassCalls,
                   tempDirs, breakpoints, resultCode, stderrLines, resultFile, lineNo, exc>>
    /\ UNCHANGED <<bpVars, rpVars>>

\* draw_dotplot returns, its locals and those of yass_dotplot are gone, and the
\* loops of lines 83-84 move to the next pair.
NextPair ==
    /\ pc = "drawn"
    /\ i' = After(Len(parts), i, j)[1]
    /\ j' = After(Len(parts), i, j)[2]
    /\ breakpoints' = <<<<>>, <<>>>>
    /\ resultCode' = 0
    /\ stderrLines' = <<>>
    /\ resultFile' = <<>>
    /\ lineNo' = 1
    /\ ops' = <<>>
    /\ pc' = "loop"
    /\ UNCHANGED <<gate, alt, ref, parts, pdf, reads, calls, pageCount, yassCalls,
                   tempDirs, exc>>
    /\ UNCHANGED <<bpVars, rpVars>>

\* Line 87: dev.off() after the last pair.
DevOff ==
    /\ pc = "loop"
    /\ i > Len(parts)
    /\ pdf' = "closed"
    /\ pc' = "done"
    /\ UNCHANGED <<gate, alt, ref, parts, i, j, reads, calls, pageCount, yassCalls,
                   tempDirs, breakpoints, resultCode, stderrLines, resultFile, lineNo,
                   ops, exc>>
    /\ UNCHANGED <<bpVars, rpVars>>

Next ==
    \/ GenerateReturn
    \/ GenerateCollect
    \/ DrawDotplot
    \/ YassCheck
    \/ PlotPage
    \/ ReadLine
    \/ PlotSimpleRepeats
    \/ NextPair
    \/ DevOff

Spec == Init /\ [][Next]_vars

(***************************************************************************)
(* The boundary computation of draw_dotplot, lines 92-93, on its own: the  *)
(* segments are drawn from all lists of up to MaxSegs segments of 1 to     *)
(* MaxSegLen nucleotides.                                                  *)
(***************************************************************************)
SegmentPool == {Rep(<<"A">>, n) : n \in 1..MaxSegLen}

InitBreakpoints ==
    /\ DriverIdle
    /\ RepeatsIdle
    /\ segsIn \in SeqsUpTo(SegmentPool, MaxSegs)
    /\ bpOut = <<>>
    /\ bpPc = "call"

ComputeBreakpoints ==
    /\ bpPc = "call"
    /\ bpOut' = Breakpoints(segsIn)
    /\ bpPc' = "done"
    /\ UNCHANGED <<segsIn, driverVars, rpVars>>

NextBreakpoints == ComputeBreakpoints

SpecBreakpoints == InitBreakpoints /\ [][NextBreakpoints]_vars

(***************************************************************************)
(* detect_simple_repeats on its own.  A sequence is built from up to       *)
(* MaxChunks runs, each a unit repeated once or about as often as its      *)
(* pattern asks for, or a single C that shifts what follows.               *)
(***************************************************************************)
Chunks ==
    {Rep(<<n>>, k) : n \in {"A", "G"}, k \in {1, MonoMin - 1, MonoMin, MonoMin + 1}}
    \cup {Rep(<<"A", "C">>, k) : k \in {1, DiMin - 1, DiMin, DiMin + 1}}
    \cup {Rep(<<"A", "A", "C">>, k) : k \in {1, TriMin - 1, TriMin, TriMin + 1}}
    \cup {<<"C">>}

RepeatInputs == {Concat(cs) : cs \in SeqsUpTo(Chunks, MaxChunks)}

InitRepeats ==
    /\ DriverIdle
    /\ BreakpointsIdle
    /\ seqIn \in RepeatInputs
    /\ repeatsOut = <<>>
    /\ rpPc = "call"

Detect ==
    /\ rpPc = "call"
    /\ repeatsOut' = DetectSimpleRepeats(seqIn)
    /\ rpPc' = "done"
    /\ UNCHANGED <<seqIn, driverVars, bpVars>>

NextRepeats == Detect

SpecRepeats == InitRepeats /\ [][NextRepeats]_vars

(***************************************************************************)
(* Properties of the batch driver, checked under Spec.                     *)
(***************************************************************************)
\* Position of an id in the deduplicated identifier list.
KeyPos(id) == CHOOSE k \in 1..Len(parts) : parts[k].id = id

CallPos(k) == <<KeyPos(calls[k][1].id), KeyPos(calls[k][2].id)>>

LexLess(p, q) == p[1] < q[1] \/ (p[1] = q[1] /\ p[2] < q[2])

\* C1: with the gate open and no failure, draw_dotplot is called exactly once for
\* every pair (id[i], id[j]) with i <= j and for no other pair, in the order i
\* ascending then j ascending, and n*(n+1)/2 pages are written; until then the
\* calls made are in that order and none is repeated.
C1_EveryPairOnceInOrder ==
    /\ \A k \in 1..Len(calls) : CallPos(k)[1] <= CallPos(k)[2]
    /\ \A k \in 1..(Len(calls) - 1) : LexLess(CallPos(k), CallPos(k + 1))
    /\ (pc = "done" /\ gate) =>
          LET n == Len(parts)
          IN /\ Len(calls) = (n * (n + 1)) \div 2
             /\ pageCount = (n * (n + 1)) \div 2
             /\ \A a \in 1..n : \A b \in a..n :
                   Cardinality({k \in 1..Len(calls) : CallPos(k) = <<a, b>>}) = 1

C1_Witness ==
    /\ pc = "done" /\ gate
    /\ Len(parts) = 3
    /\ pageCount = 6
    /\ [k \in 1..6 |-> CallPos(k)] = <<<<1, 1>>, <<1, 2>>, <<1, 3>>, <<2, 2>>, <<2, 3>>, <<3, 3>>>>

\* C2: once the pdf has been opened it is closed by dev.off before
\* generate_dotplots ends, on every path, the failure of an alignment included.
C2_ClosedOnEveryPath ==
    (pc \in {"done", "raised"} /\ pdf # "none") => pdf = "closed"

\* Whether lines 134-139 are meant to reject the run: a non-zero exit code, or
\* "Error" in the first line of stderr.
Rejected ==
    \/ resultCode # 0
    \/ (stderrLines # <<>> /\ Contains(stderrLines[1], ErrorWord))

\* The checks of lines 134-139 have just been made on the current run.
JustChecked == pc = "plot" \/ (pc = "raised" /\ Len(ops) = 1)

\* C3: yass_dotplot fails with YassException if and only if the exit code is not
\* zero or the first line of stderr contains "Error", the exit code being tested
\* first; in every other case, a stderr with no lines included, it raises nothing
\* and goes on to the page.
C3_YassExceptionIffRejected ==
    JustChecked =>
        /\ (exc.type = "YassException") <=> Rejected
        /\ (resultCode # 0) => exc.line = 135
        /\ (~Rejected) => (exc = NoExc /\ pc = "plot")

\* C4: when yass_dotplot has ended, by returning or by raising, no temporary
\* directory is left.
C4_NoTempDirLeft ==
    (pc \in {"repeats", "drawn", "loop", "done", "raised"}) => tempDirs = 0

\* The lines of the result file read so far that do not start with "#".
RecordsRead ==
    SelectSeq(SubSeq(resultFile, 1, lineNo - 1), LAMBDA l : ~StartsWith(l, <<"#">>))

\* The alignment segments drawn on the current page: what follows the page start
\* and the two gridline calls.
AlignmentSegments == SubSeq(ops, 5, Len(ops))

\* The integer field k (0-based, as in the code) of the split line f.
Field(f, k) == ParseInt(f[k + 1]).val

\* C5: every line of the result read that is not a comment has exactly one segment
\* drawn for it, in file order: (f0,f2)-(f1,f3) when f6 is "f", (f1,f2)-(f0,f3)
\* otherwise; comment lines draw nothing.
C5_OneSegmentPerRecord ==
    (pc \in {"lines", "repeats"}) =>
        /\ Len(AlignmentSegments) = Len(RecordsRead)
        /\ \A k \in 1..Len(RecordsRead) :
              LET f == Split(RecordsRead[k])
                  s == AlignmentSegments[k]
              IN /\ s.op = "segments"
                 /\ IF f[7] = <<"f">>
                    THEN <<s.x0, s.y0, s.x1, s.y1>>
                            = <<H(Field(f, 0)), H(Field(f, 2)), H(Field(f, 1)), H(Field(f, 3))>>
                    ELSE <<s.x0, s.y0, s.x1, s.y1>>
                            = <<H(Field(f, 1)), H(Field(f, 2)), H(Field(f, 0)), H(Field(f, 3))>>

C5_Witness ==
    /\ pc = "repeats"
    /\ resultFile = <<ReverseLine, ForwardLine>>
    /\ Len(ops) = 6
    /\ <<ops[5].x0, ops[5].y0, ops[5].x1, ops[5].y1>> = <<H(20), H(5), H(10), H(15)>>
    /\ <<ops[6].x0, ops[6].y0, ops[6].x1, ops[6].y1>> = <<H(10), H(5), H(20), H(15)>>

\* C8: with the gate closed generate_dotplots does nothing: no pdf, no yass, no
\* canvas call, no read of the data model, no exception.
C8_ClosedGateNoOp ==
    (~gate) =>
        /\ pc \in {"start", "done"}
        /\ pdf = "none"
        /\ yassCalls = 0 /\ tempDirs = 0
        /\ ops = <<>> /\ pageCount = 0 /\ calls = <<>>
        /\ reads = 0 /\ parts = <<>>
        /\ exc = NoExc

C8_Witness == ~gate /\ pc = "done" /\ (alt # <<>> \/ ref # <<>>)

\* The step of draw_dotplot an entry of ops belongs to.
Rank(o) ==
    IF o.op = "yass" THEN 1
    ELSE IF o.op = "plot" THEN 2
    ELSE IF o.op = "abline" THEN (IF "v" \in DOMAIN o THEN 3 ELSE 4)
    ELSE IF o.lwd = 1 THEN 5
    ELSE IF o.y0 = o.y1 THEN 6
    ELSE 7

CurrentPart(k) == calls[Len(calls)][k]

\* C9: for every pair the order is: yass and the check of its outcome, the page
\* start with limits [0,len(seq1)] x [0,len(seq2)], the vertical gridlines of
\* part1, the horizontal gridlines of part2, the alignment segments, the repeat
\* markers of seq1, those of seq2; nothing is drawn before the page start, and a
\* pair whose alignment fails starts no page and draws nothing.
C9_StepsInOrder ==
    /\ \A k \in 1..Len(ops) : IF k <= 4 THEN Rank(ops[k]) = k ELSE Rank(ops[k]) >= 5
    /\ \A k \in 1..(Len(ops) - 1) : Rank(ops[k]) <= Rank(ops[k + 1])
    /\ (Len(ops) >= 2) =>
          /\ ~Rejected
          /\ Len(ops) >= 4
          /\ ops[2].xlim = <<0, H(Len(GetSeq(CurrentPart(1))))>>
          /\ ops[2].ylim = <<0, H(Len(GetSeq(CurrentPart(2))))>>
          /\ ops[3].v = [k \in 1..Len(breakpoints[1]) |-> H(breakpoints[1][k])]
          /\ ops[4].h = [k \in 1..Len(breakpoints[2]) |-> H(breakpoints[2][k])]
          /\ breakpoints = <<Breakpoints(CurrentPart(1).segments),
                             Breakpoints(CurrentPart(2).segments)>>
    /\ (\E k \in 1..Len(ops) : Rank(ops[k]) >= 6) => pc = "drawn"
    /\ (pc = "raised" /\ (Rejected \/ stderrLines = <<>>)) =>
          (Len(ops) = 1 /\ pageCount = Len(calls) - 1)

C9_Witness ==
    /\ pc = "drawn"
    /\ {Rank(ops[k]) : k \in 1..Len(ops)} = 1..7
    /\ Len(ops[3].v) > 0 /\ Len(ops[4].h) > 0

\* Position in s of the first, and of the last, part with this id.
FirstIndex(s, id) == CHOOSE k \in 1..Len(s) : s[k].id = id /\ \A m \in 1..(k - 1) : s[m].id # id

LastIndex(s, id) == CHOOSE k \in 1..Len(s) : s[k].id = id /\ \A m \in (k + 1)..Len(s) : s[m].id # id

\* C10: the parts of "alt" then "ref" are collected by identifier; a later part
\* replaces an earlier one of the same identifier and keeps the place of the first;
\* each identifier is held once; the pairs run over the identifiers in the order of
\* their first occurrence and draw the last part seen for each.
C10_LastWinsFirstPlace ==
    (pc \notin {"start", "done"} \/ (pc = "done" /\ gate)) =>
        LET all == alt \o ref
        IN /\ \A a \in 1..Len(parts) : \A b \in 1..Len(parts) :
                 parts[a].id = parts[b].id => a = b
           /\ {parts[k].id : k \in 1..Len(parts)} = {all[k].id : k \in 1..Len(all)}
           /\ \A k \in 1..Len(parts) : parts[k] = all[LastIndex(all, parts[k].id)]
           /\ \A a \in 1..Len(parts) : \A b \in 1..Len(parts) :
                 a < b => FirstIndex(all, parts[a].id) < FirstIndex(all, parts[b].id)
           /\ \A k \in 1..Len(calls) :
                 /\ calls[k][1] = all[LastIndex(all, calls[k][1].id)]
                 /\ calls[k][2] = all[LastIndex(all, calls[k][2].id)]

C10_Witness ==
    /\ pc = "done"
    /\ alt = <<PartA1, PartB>>
    /\ ref = <<PartA2>>
    /\ parts = <<PartA2, PartB>>
    /\ calls = <<<<PartA2, PartA2>>, <<PartA2, PartB>>, <<PartB, PartB>>>>

(***************************************************************************)
(* The boundary computation, checked under SpecBreakpoints.                *)
(***************************************************************************)
RECURSIVE SumFirst(_, _)
SumFirst(lens, k) == IF k = 0 THEN 0 ELSE SumFirst(lens, k - 1) + lens[k]

LengthsIn == [k \in 1..Len(segsIn) |-> Len(segsIn[k])]

IsRun(seq, s, e, w, least) ==
    /\ 0 <= s /\ s < e /\ e <= Len(seq)
    /\ (e - s) % w = 0
    /\ (e - s) \div w >= least
    /\ \A t \in (s + 1)..(e - w) : seq[t] = seq[t + w]
    /\ (w > 1) => (\E t \in (s + 1)..(s + w - 1) : seq[t] # seq[t + 1])

\* The intervals a..b of the output are disjoint and listed by increasing start.
DisjointIncreasing(out, a, b) ==
    \A k \in a..(b - 1) : out[k][2] <= out[k + 1][1]

\* C7: every interval (start, end) satisfies 0 <= start < end <= len(seq) and spans
\* a run of one unit: length >= 10 for a mono match, >= 10 for a di match (5 units
\* or more), >= 9 for a tri match (3 units or more); the mono intervals come first,
\* then the di, then the tri, and those of one class are disjoint and listed by
\* increasing start.
C7_RepeatIntervals ==
    (rpPc = "done") =>
        /\ \A k \in 1..Len(repeatsOut) :
              /\ 0 <= repeatsOut[k][1]
              /\ repeatsOut[k][1] < repeatsOut[k][2]
              /\ repeatsOut[k][2] <= Len(seqIn)
        /\ \E m \in 0..Len(repeatsOut) : \E d \in m..Len(repeatsOut) :
              /\ \A k \in 1..m :
                    /\ IsRun(seqIn, repeatsOut[k][1], repeatsOut[k][2], 1, 10)
                    /\ repeatsOut[k][2] - repeatsOut[k][1] >= 10
              /\ \A k \in (m + 1)..d :
                    /\ IsRun(seqIn, repeatsOut[k][1], repeatsOut[k][2], 2, 5)
                    /\ repeatsOut[k][2] - repeatsOut[k][1] >= 10
              /\ \A k \in (d + 1)..Len(repeatsOut) :
                    /\ IsRun(seqIn, repeatsOut[k][1], repeatsOut[k][2], 3, 3)
                    /\ repeatsOut[k][2] - repeatsOut[k][1] >= 9
              /\ DisjointIncreasing(repeatsOut, 1, m)
              /\ DisjointIncreasing(repeatsOut, m + 1, d)
              /\ DisjointIncreasing(repeatsOut, d + 1, Len(repeatsOut))

\* A di match found before a mono match in the sequence and listed after it.
C7_Witness ==
    /\ rpPc = "done"
    /\ seqIn = Rep(<<"A", "C">>, 5) \o Rep(<<"A">>, 11)
    /\ repeatsOut = <<<<10, 21>>, <<0, 10>>>>

====
